---- MODULE Spec2Model ----
(***************************************************************************)
(* Model of datasets/ssl_dataset.py (class SSL_Dataset) together with the  *)
(* stratified labeled/unlabeled splitter split_ssl_data it calls.          *)
(*                                                                         *)
(* A sample collection of N samples is the pair (data, targets): data is   *)
(* the sequence of sample identities 0..N-1 (the images are opaque, a      *)
(* sample is identified by its position in the loaded collection) and      *)
(* targets the sequence of integer labels.  Python position i is TLA+      *)
(* position i+1.                                                           *)
(***************************************************************************)
EXTENDS Integers, Sequences, FiniteSets, TLC

\* ---------------------------------------------------------------- bounds
MaxN == 3          \* largest collection
MaxClasses == 2    \* largest num_classes (labels are 0..MaxClasses-1)
MaxLabels == 2     \* largest num_labels requested
MaxIdxLen == 2     \* longest explicit index
RngStates == 2     \* states of the process-wide random generator

\* ------------------------------------------------------------ Python values
None == "None"
Unset == <<"unset">>             \* label_encoding before its first assignment
NoErr == "ok"
NoIndex == [given |-> FALSE, idx |-> <<>>]
NoDataset == [kind |-> "none"]
NoInst == [kind |-> "none"]

Range(s) == {s[i] : i \in 1..Len(s)}
Ids(n) == [i \in 1..n |-> i - 1]
At(s, i) == s[i + 1]             \* Python s[i]
Take(s, idx) == [j \in 1..Len(idx) |-> At(s, idx[j])]   \* numpy s[idx]

\* ------------------------------------------------- module tables (l.17-30)
MeanKeys == {"cifar10", "cifar100", "ucm", "aid", "eurosat_rgb", "eurosat_ms"}
StdKeys == {"cifar10", "cifar100", "ucm", "aid", "eurosat_rgb", "eurosat_ms"}
mean(name) == <<"mean", name>>
std(name) == <<"std", name>>

get_transform(m, s, train) ==
    IF train
    THEN <<"RandomHorizontalFlip", "RandomCrop", "ToTensor", "Normalize", m, s>>
    ELSE <<"ToTensor", "Normalize", m, s>>

get_inverse_transform(m, s) ==
    <<"ToTensor", "Normalize", <<"mean_inv", m, s>>, <<"std_inv", s>>>>

\* --------------------------------------------------- SSL_Dataset.__init__
\* The lookups mean[name], std[name] of lines 83-84 raise KeyError for a name
\* that is not a key of the tables; the object is then never constructed.
SSL_Dataset_init_nolookup(name, train, num_classes, data_dir, seed) ==
    [err |-> NoErr, at |-> "",
     obj |-> [kind |-> "SSL_Dataset", name |-> name, seed |-> seed,
              train |-> train, data_dir |-> data_dir,
              num_classes |-> num_classes,
              transform |-> get_transform(mean(name), std(name), train),
              inv_transform |-> get_inverse_transform(mean(name), std(name)),
              label_encoding |-> Unset]]

SSL_Dataset_init(name, train, num_classes, data_dir, seed) ==
    IF name \notin MeanKeys \/ name \notin StdKeys
    THEN [err |-> "KeyError", at |-> "__init__", obj |-> NoInst]
    ELSE [err |-> NoErr, at |-> "",
          obj |-> [kind |-> "SSL_Dataset",
                   name |-> name,
                   seed |-> seed,
                   train |-> train,
                   data_dir |-> data_dir,
                   num_classes |-> num_classes,
                   transform |-> get_transform(mean(name), std(name), train),
                   inv_transform |-> get_inverse_transform(mean(name), std(name)),
                   label_encoding |-> Unset]]

\* --------------------------------------------------- SSL_Dataset.get_data
\* The loader classes are external; each yields the collection held by the
\* data source (src) and, for the remote-sensing sets, a label encoding.
Loader(cls, train, seed, src) ==
    [cls |-> cls, data |-> Ids(Len(src)), targets |-> src,
     label_encoding |-> <<"label_encoding", cls>>]

dispatch(self, src) ==
    IF self.name \in {"cifar10", "cifar100"}
    THEN Loader("torchvision", self.train, 0, src)
    ELSE IF self.name = "ucm" THEN Loader("UCMDataset", self.train, self.seed, src)
    ELSE IF self.name = "aid" THEN Loader("AIDDataset", self.train, self.seed, src)
    ELSE IF self.name = "eurosat_rgb"
         THEN Loader("EurosatRGBDataset", self.train, self.seed, src)
    ELSE IF self.name = "eurosat_ms"
         THEN Loader("EurosatRGBDataset", self.train, self.seed, src)
    ELSE [cls |-> "unbound", data |-> <<>>, targets |-> <<>>,
          label_encoding |-> <<"label_encoding", "unbound">>]

get_data_noassign(self, src) ==
    LET dset == dispatch(self, src) IN
    [err |-> NoErr, at |-> "",
     label_encoding |-> IF self.name \in {"cifar10", "cifar100"}
                        THEN self.label_encoding ELSE dset.label_encoding,
     data |-> dset.data, targets |-> dset.targets]

get_data(self, src) ==
    LET dset == dispatch(self, src) IN
    IF self.name \in {"cifar10", "cifar100"}
    THEN [err |-> NoErr, at |-> "", label_encoding |-> <<"None">>,
          data |-> dset.data, targets |-> dset.targets]
    ELSE IF dset.cls = "unbound"
    THEN [err |-> "UnboundLocalError", at |-> "get_data",
          label_encoding |-> self.label_encoding, data |-> <<>>, targets |-> <<>>]
    ELSE [err |-> NoErr, at |-> "", label_encoding |-> dset.label_encoding,
          data |-> dset.data, targets |-> dset.targets]

\* ------------------------------------------------ split_ssl_data (data_utils)
\* Positions i (ascending) with targets[i] = c: np.where(targets == c)[0].
RECURSIVE where(_, _, _)
where(targets, c, i) ==
    IF i >= Len(targets) THEN <<>>
    ELSE (IF At(targets, i) = c THEN <<i>> ELSE <<>>) \o where(targets, c, i + 1)

Remove(s, p) == [j \in 1..(Len(s) - 1) |-> IF j < p THEN s[j] ELSE s[j + 1]]

\* k draws without replacement from cand, decided by the generator state r.
RECURSIVE choice(_, _, _)
choice(r, cand, k) ==
    IF k = 0 THEN <<>>
    ELSE LET p == (r % Len(cand)) + 1
         IN <<cand[p]>> \o choice(r, Remove(cand, p), k - 1)

\* One class after the other, from class c on; every draw advances the
\* generator.  A class with fewer than k samples is an insufficient-samples
\* error.
RECURSIVE sample_classes(_, _, _, _, _)
sample_classes(targets, c, num_classes, k, r) ==
    IF c >= num_classes THEN [err |-> NoErr, idx |-> <<>>, rng |-> r]
    ELSE LET cand == where(targets, c, 0) IN
         IF Len(cand) < k
         THEN [err |-> "InsufficientSamples", idx |-> <<>>, rng |-> r]
         ELSE LET rest == sample_classes(targets, c + 1, num_classes, k,
                                         (r + 1) % RngStates)
              IN [err |-> rest.err,
                  idx |-> IF rest.err = NoErr
                          THEN choice(r, cand, k) \o rest.idx ELSE <<>>,
                  rng |-> rest.rng]

sample_labeled_data(targets, num_labels, num_classes, index, r) ==
    IF index.given
    THEN IF Len(index.idx) # num_labels
         THEN [err |-> "ValidationError", idx |-> <<>>, rng |-> r]
         ELSE [err |-> NoErr, idx |-> index.idx, rng |-> r]
    ELSE sample_classes(targets, 0, num_classes, num_labels \div num_classes, r)

\* Ascending positions of 0..n-1 that are not in the set lb.
RECURSIVE complement(_, _, _)
complement(n, lb, i) ==
    IF i >= n THEN <<>>
    ELSE (IF i \in lb THEN <<>> ELSE <<i>>) \o complement(n, lb, i + 1)

split_ssl_data(data, targets, num_labels, num_classes, index, include_lb_to_ulb, r) ==
    LET lb == sample_labeled_data(targets, num_labels, num_classes, index, r)
        ulb_idx == complement(Len(data), Range(lb.idx), 0)
    IN IF lb.err # NoErr
       THEN [err |-> lb.err, rng |-> lb.rng, lb_idx |-> <<>>,
             lb_data |-> <<>>, lb_targets |-> <<>>,
             ulb_data |-> <<>>, ulb_targets |-> <<>>]
       ELSE [err |-> NoErr, rng |-> lb.rng, lb_idx |-> lb.idx,
             lb_data |-> Take(data, lb.idx),
             lb_targets |-> Take(targets, lb.idx),
             ulb_data |-> IF include_lb_to_ulb THEN data ELSE Take(data, ulb_idx),
             ulb_targets |-> IF include_lb_to_ulb THEN targets
                             ELSE Take(targets, ulb_idx)]

\* ------------------------------------------------------------ BasicDataset
BasicDataset(data, targets, num_classes, transform, use_strong_transform, strong_transform, onehot) ==
    [kind |-> "BasicDataset", data |-> data, targets |-> targets,
     num_classes |-> num_classes, transform |-> transform,
     use_strong_transform |-> use_strong_transform,
     strong_transform |-> strong_transform, onehot |-> onehot]

\* --------------------------------------------------- SSL_Dataset.get_dset
get_dset(self, src, use_strong_transform, strong_transform, onehot) ==
    LET gd == get_data(self, src) IN
    [err |-> gd.err, at |-> gd.at, label_encoding |-> gd.label_encoding,
     dset |-> IF gd.err # NoErr THEN NoDataset
              ELSE BasicDataset(gd.data, gd.targets, self.num_classes,
                                self.transform, use_strong_transform,
                                strong_transform, onehot)]

\* ----------------------------------------------- SSL_Dataset.get_ssl_dset
\* lines 166-168: the arguments handed to the splitter.  The instance's seed
\* is not among them; the draws come from the process-wide generator (r).
call_split_noindex(self, gd, num_labels, index, include_lb_to_ulb, r) ==
    split_ssl_data(gd.data, gd.targets, num_labels, self.num_classes, NoIndex,
                   include_lb_to_ulb, r)

call_split(self, gd, num_labels, index, include_lb_to_ulb, r) ==
    split_ssl_data(gd.data, gd.targets, num_labels, self.num_classes, index,
                   include_lb_to_ulb, r)

lb_dset_full(self, gd, sp, use_strong_transform, strong_transform, onehot) ==
    BasicDataset(gd.data, gd.targets, self.num_classes, self.transform,
                 FALSE, None, onehot)

lb_dset_targets(self, gd, sp, use_strong_transform, strong_transform, onehot) ==
    BasicDataset(sp.lb_data, gd.targets, self.num_classes, self.transform,
                 FALSE, None, onehot)

lb_dset_strong(self, gd, sp, use_strong_transform, strong_transform, onehot) ==
    BasicDataset(sp.lb_data, sp.lb_targets, self.num_classes, self.transform,
                 use_strong_transform, strong_transform, onehot)

\* lines 170-172
lb_dset(self, gd, sp, use_strong_transform, strong_transform, onehot) ==
    BasicDataset(sp.lb_data, sp.lb_targets, self.num_classes, self.transform,
                 FALSE, None, onehot)

ulb_dset_lb(self, gd, sp, use_strong_transform, strong_transform, onehot) ==
    BasicDataset(sp.lb_data, sp.lb_targets, self.num_classes, self.transform,
                 use_strong_transform, strong_transform, onehot)

\* lines 174-182: built from data, targets of get_data, not from the
\* splitter's ulb_data, ulb_targets.
ulb_dset(self, gd, sp, use_strong_transform, strong_transform, onehot) ==
    BasicDataset(gd.data, gd.targets, self.num_classes, self.transform,
                 use_strong_transform, strong_transform, onehot)

get_ssl_dset_swallow(self, src, r, num_labels, index, include_lb_to_ulb, use_strong_transform, strong_transform, onehot) ==
    LET gd == get_data(self, src)
        sp == call_split(self, gd, num_labels, index, include_lb_to_ulb, r)
    IN [err |-> NoErr, at |-> "", label_encoding |-> gd.label_encoding,
        rng |-> sp.rng,
        lb |-> lb_dset(self, gd, sp, use_strong_transform, strong_transform,
                       onehot),
        ulb |-> ulb_dset(self, gd, sp, use_strong_transform, strong_transform,
                         onehot)]

get_ssl_dset(self, src, r, num_labels, index, include_lb_to_ulb, use_strong_transform, strong_transform, onehot) ==
    LET gd == get_data(self, src)
        sp == call_split(self, gd, num_labels, index, include_lb_to_ulb, r)
    IN IF gd.err # NoErr
       THEN [err |-> gd.err, at |-> gd.at, label_encoding |-> gd.label_encoding,
             rng |-> r, lb |-> NoDataset, ulb |-> NoDataset]
       ELSE IF sp.err # NoErr
       THEN [err |-> sp.err, at |-> "split_ssl_data",
             label_encoding |-> gd.label_encoding,
             rng |-> sp.rng, lb |-> NoDataset, ulb |-> NoDataset]
       ELSE [err |-> NoErr, at |-> "", label_encoding |-> gd.label_encoding,
             rng |-> sp.rng,
             lb |-> lb_dset(self, gd, sp, use_strong_transform,
                            strong_transform, onehot),
             ulb |-> ulb_dset(self, gd, sp, use_strong_transform,
                              strong_transform, onehot)]

\* =================================================================== state
VARIABLES
    self,    \* the SSL_Dataset instance (NoInst when none was constructed)
    ctor,    \* the latest construction request and its outcome
    disk,    \* targets of the collection the loaders yield (data = Ids)
    rng,     \* state of the process-wide random generator
    ret      \* the latest method call on self: arguments and outcome

vars == <<self, ctor, disk, rng, ret>>

NoRet == [op |-> "none", err |-> NoErr, at |-> "",
          num_labels |-> 0, index |-> NoIndex, include_lb_to_ulb |-> TRUE,
          use_strong_transform |-> FALSE, strong_transform |-> None,
          onehot |-> FALSE,
          data |-> <<>>, targets |-> <<>>, dset |-> NoDataset,
          lb |-> NoDataset, ulb |-> NoDataset]

\* ------------------------------------------------------------ input sets
Names == MeanKeys \cup {"mnist"}
CoreNames == {"cifar10", "eurosat_rgb"}
Seeds == {1, 42}
Labels == 0..(MaxClasses - 1)
SeqsUpTo(S, n) == UNION {[1..m -> S] : m \in 1..n}
Collections == SeqsUpTo(Labels, MaxN)
SmallCollections == SeqsUpTo(Labels, MaxIdxLen)
Indexes(n) == {[given |-> TRUE, idx |-> q] : q \in SeqsUpTo(0..(n - 1), MaxIdxLen)}
StrongTransforms == {None, "RandAugment"}

Init ==
    /\ self = NoInst
    /\ ctor = [name |-> "", err |-> NoErr, at |-> ""]
    /\ disk \in Collections
    /\ rng \in 0..(RngStates - 1)
    /\ ret = NoRet

\* ================================================================= actions
\* SSL_Dataset(name, train, num_classes, data_dir, seed)
Construct(name, train, num_classes, seed) ==
    /\ \E c \in {SSL_Dataset_init(name, train, num_classes, "./data", seed)} :
       /\ self' = c.obj
       /\ ctor' = [name |-> name, err |-> c.err, at |-> c.at]
    /\ ret' = NoRet
    /\ UNCHANGED <<disk, rng>>

\* self.get_data()
Call_get_data ==
    /\ self.kind = "SSL_Dataset"
    /\ \E gd \in {get_data(self, disk)} :
       /\ self' = [self EXCEPT !.label_encoding = gd.label_encoding]
       /\ ret' = [NoRet EXCEPT !.op = "get_data", !.err = gd.err, !.at = gd.at,
                               !.data = gd.data, !.targets = gd.targets]
    /\ UNCHANGED <<ctor, disk, rng>>

\* self.get_dset(use_strong_transform, strong_transform, onehot)
Call_get_dset(use_strong_transform, strong_transform, onehot) ==
    /\ self.kind = "SSL_Dataset"
    /\ \E r \in {get_dset(self, disk, use_strong_transform, strong_transform,
                         onehot)} :
       /\ self' = [self EXCEPT !.label_encoding = r.label_encoding]
       /\ ret' = [NoRet EXCEPT !.op = "get_dset", !.err = r.err, !.at = r.at,
                               !.use_strong_transform = use_strong_transform,
                               !.strong_transform = strong_transform,
                               !.onehot = onehot, !.dset = r.dset]
    /\ UNCHANGED <<ctor, disk, rng>>

\* self.get_ssl_dset(num_labels, index, include_lb_to_ulb,
\*                   use_strong_transform, strong_transform, onehot)
Call_get_ssl_dset(num_labels, index, include_lb_to_ulb, use_strong_transform, strong_transform, onehot) ==
    /\ self.kind = "SSL_Dataset"
    /\ \E r \in {get_ssl_dset(self, disk, rng, num_labels, index,
                             include_lb_to_ulb, use_strong_transform,
                             strong_transform, onehot)} :
       /\ self' = [self EXCEPT !.label_encoding = r.label_encoding]
       /\ rng' = r.rng
       /\ ret' = [NoRet EXCEPT !.op = "get_ssl_dset", !.err = r.err, !.at = r.at,
                               !.num_labels = num_labels, !.index = index,
                               !.include_lb_to_ulb = include_lb_to_ulb,
                               !.use_strong_transform = use_strong_transform,
                               !.strong_transform = strong_transform,
                               !.onehot = onehot, !.lb = r.lb, !.ulb = r.ulb]
    /\ UNCHANGED <<ctor, disk>>

\* ---------------------------------------------------------- specifications
\* Spec: the balanced random split.  Calls without an explicit index, with
\* the default augmentation arguments of get_ssl_dset (lines 140-142).
Next ==
    \/ \E name \in CoreNames, num_classes \in 1..MaxClasses, seed \in Seeds :
          Construct(name, TRUE, num_classes, seed)
    \/ Call_get_data
    \/ Call_get_dset(FALSE, None, FALSE)
    \/ \E num_labels \in 1..MaxLabels, include_lb_to_ulb \in BOOLEAN :
          Call_get_ssl_dset(num_labels, NoIndex, include_lb_to_ulb, TRUE, None, FALSE)

Spec == Init /\ [][Next]_vars

\* SpecIndex: the explicit index.  Every index over the collection's
\* positions up to MaxIdxLen entries (any order, repetitions included), for
\* each seed, over the collections of up to MaxIdxLen samples.
InitSmall ==
    /\ self = NoInst
    /\ ctor = [name |-> "", err |-> NoErr, at |-> ""]
    /\ disk \in SmallCollections
    /\ rng \in 0..(RngStates - 1)
    /\ ret = NoRet

NextIndex ==
    \/ \E seed \in Seeds : Construct("cifar10", TRUE, MaxClasses, seed)
    \/ Call_get_data
    \/ Call_get_dset(FALSE, None, FALSE)
    \/ \E num_labels \in 1..MaxLabels, index \in Indexes(Len(disk)) :
          Call_get_ssl_dset(num_labels, index, TRUE, TRUE, None, FALSE)

SpecIndex == InitSmall /\ [][NextIndex]_vars

\* SpecNames: the dispatch on the dataset name, for every name.
NextNames ==
    \/ \E name \in Names, num_classes \in 1..MaxClasses :
          Construct(name, TRUE, num_classes, 42)
    \/ Call_get_data
    \/ Call_get_dset(FALSE, None, FALSE)
    \/ \E num_labels \in 1..MaxLabels :
          Call_get_ssl_dset(num_labels, NoIndex, TRUE, TRUE, None, FALSE)

SpecNames == Init /\ [][NextNames]_vars

\* SpecFlags: the augmentation arguments.  Every value of use_strong_transform,
\* strong_transform and onehot, for training and evaluation transforms, over
\* the collections of up to MaxIdxLen samples.
NextFlags ==
    \/ \E train \in BOOLEAN, num_classes \in 1..MaxClasses :
          Construct("eurosat_rgb", train, num_classes, 42)
    \/ Call_get_data
    \/ \E use_strong_transform \in BOOLEAN, strong_transform \in StrongTransforms,
          onehot \in BOOLEAN :
          Call_get_dset(use_strong_transform, strong_transform, onehot)
    \/ \E num_labels \in 1..MaxLabels, use_strong_transform \in BOOLEAN,
          strong_transform \in StrongTransforms, onehot \in BOOLEAN :
          Call_get_ssl_dset(num_labels, NoIndex, TRUE, use_strong_transform,
                            strong_transform, onehot)

SpecFlags == InitSmall /\ [][NextFlags]_vars

\* ================================================================== claims
Split == ret.op = "get_ssl_dset"
SplitOk == ret.op = "get_ssl_dset" /\ ret.err = NoErr
Count(s, c) == Cardinality({j \in 1..Len(s) : s[j] = c})
Quota == ret.num_labels \div self.num_classes
Returned(d) == d.kind = "BasicDataset"

\* C1 (as claimed): with include_lb_to_ulb = False no sample of the labeled
\* dataset appears in the unlabeled dataset, which has N - num_labels samples.
C1_Claim ==
    (SplitOk /\ ~ret.include_lb_to_ulb) =>
        /\ Range(ret.lb.data) \cap Range(ret.ulb.data) = {}
        /\ Len(ret.ulb.data) = Len(disk) - ret.num_labels

\* C2: without an explicit index and with num_labels divisible by
\* num_classes, the labeled dataset has num_labels samples at distinct
\* positions, and every class c < num_classes contributes exactly
\* num_labels / num_classes of them, each carrying target c.
C2_Balanced ==
    (SplitOk /\ ~ret.index.given /\ ret.num_labels % self.num_classes = 0) =>
        /\ Len(ret.lb.data) = ret.num_labels
        /\ Len(ret.lb.targets) = ret.num_labels
        /\ Cardinality(Range(ret.lb.data)) = ret.num_labels
        /\ \A j \in 1..Len(ret.lb.data) :
              /\ ret.lb.data[j] \in 0..(Len(disk) - 1)
              /\ ret.lb.targets[j] = disk[ret.lb.data[j] + 1]
        /\ \A c \in 0..(self.num_classes - 1) : Count(ret.lb.targets, c) = Quota
        /\ \A j \in 1..Len(ret.lb.targets) :
              ret.lb.targets[j] \in 0..(self.num_classes - 1)

C2_Witness ==
    /\ SplitOk /\ ~ret.index.given
    /\ self.num_classes = 2 /\ ret.num_labels = 2
    /\ Len(ret.lb.data) = 2 /\ Len(disk) = 3

C4_ExplicitIndex ==
    [][(ret'.op = "get_ssl_dset" /\ ret'.index.given
        /\ Len(ret'.index.idx) = ret'.num_labels)
       => /\ ret'.err = NoErr
          /\ ret'.lb.data = ret'.index.idx
          /\ ret'.lb.targets = [j \in 1..Len(ret'.index.idx) |->
                                   disk[ret'.index.idx[j] + 1]]
          /\ rng' = rng]_vars

C4_Witness ==
    /\ SplitOk /\ ret.index.given /\ Len(ret.index.idx) = 2
    /\ ret.index.idx[1] > ret.index.idx[2]
    /\ self.seed = 42 /\ ret.lb.data = ret.index.idx

\* C5: with include_lb_to_ulb = True the unlabeled dataset is the whole
\* collection, data and targets in the original order, so it holds every
\* labeled sample.
C5_WholeCollection ==
    (SplitOk /\ ret.include_lb_to_ulb) =>
        /\ ret.ulb.data = [i \in 1..Len(disk) |-> i - 1]
        /\ ret.ulb.targets = disk
        /\ Range(ret.lb.data) \subseteq Range(ret.ulb.data)

C5_Witness ==
    /\ SplitOk /\ ret.include_lb_to_ulb
    /\ Len(ret.lb.data) >= 1 /\ Len(ret.ulb.data) = 3

\* C6 (as claimed): an unsupported name fails at the dispatch in get_data;
\* a supported name raises no such error.
Supported == {"cifar10", "cifar100", "ucm", "aid", "eurosat_rgb", "eurosat_ms"}
Requested == ctor.name # ""

C6_Claim ==
    /\ (Requested /\ ctor.name \notin Supported) =>
          /\ ctor.err = NoErr
          /\ ret.op # "none" =>
                (ret.err # NoErr /\ ret.at = "get_data"
                 /\ ~Returned(ret.dset) /\ ~Returned(ret.lb) /\ ~Returned(ret.ulb))
    /\ (Requested /\ ctor.name \in Supported) =>
          (ctor.err = NoErr /\ ret.at # "get_data")

\* C6 (amended): an unsupported name fails when the instance is constructed
\* (the lookup in the mean/std tables), before any dispatch: there is no
\* instance, so no dataset is returned; a supported name is constructed and
\* its get_data dispatch raises no error.
C6_FailsAtConstruction ==
    /\ (Requested /\ ctor.name \notin Supported) =>
          /\ ctor.err = "KeyError" /\ ctor.at = "__init__"
          /\ self.kind = "none"
          /\ ret = NoRet
    /\ (Requested /\ ctor.name \in Supported) =>
          /\ ctor.err = NoErr
          /\ self.kind = "SSL_Dataset" /\ self.name = ctor.name
          /\ ret.at # "get_data"
          /\ ret.err \notin {"KeyError", "UnboundLocalError"}

C6_Witness == ctor.name = "mnist" /\ ctor.err = "KeyError" /\ self.kind = "none"

\* C7: without an explicit index, when some class has fewer samples than the
\* per-class quota, the call fails with an insufficient-samples error raised
\* by the splitter and returns no dataset.
C7_Insufficient ==
    (/\ Split /\ ~ret.index.given
     /\ \E c \in 0..(self.num_classes - 1) : Count(disk, c) < Quota) =>
        /\ ret.err = "InsufficientSamples"
        /\ ret.at = "split_ssl_data"
        /\ ~Returned(ret.lb) /\ ~Returned(ret.ulb)

C7_Witness ==
    /\ Split /\ ~ret.index.given /\ ret.err = "InsufficientSamples"
    /\ self.num_classes = 2 /\ Count(disk, 0) >= Quota /\ Count(disk, 1) < Quota

\* C8: an explicit index whose length differs from num_labels makes the call
\* fail with a validation error and return no dataset.
C8_IndexLength ==
    (Split /\ ret.index.given /\ Len(ret.index.idx) # ret.num_labels) =>
        /\ ret.err = "ValidationError"
        /\ ~Returned(ret.lb) /\ ~Returned(ret.ulb)

C8_Witness ==
    /\ Split /\ ret.index.given /\ Len(ret.index.idx) = 2 /\ ret.num_labels = 1
    /\ ret.err = "ValidationError"

\* C9 (as claimed): a method call changes neither the collection nor any
\* field of the instance, label_encoding included.
C9_Claim ==
    [][ret'.op # "none" => (disk' = disk /\ self' = self)]_vars

\* C9 (amended): a method call, successful or failing, changes neither the
\* collection nor the fields name, seed, train, data_dir, num_classes,
\* transform, inv_transform; it assigns label_encoding (get_data, lines
\* 102-105), which is unassigned before the first call and keeps its value
\* from then on.
C9_Frame ==
    [][ret'.op # "none" =>
        /\ disk' = disk
        /\ self'.kind = self.kind /\ self'.name = self.name
        /\ self'.seed = self.seed /\ self'.train = self.train
        /\ self'.data_dir = self.data_dir
        /\ self'.num_classes = self.num_classes
        /\ self'.transform = self.transform
        /\ self'.inv_transform = self.inv_transform
        /\ self'.label_encoding # Unset
        /\ (self.label_encoding # Unset =>
               self'.label_encoding = self.label_encoding)]_vars

C9_Witness ==
    /\ Split /\ ret.err = "InsufficientSamples"
    /\ self.name = "cifar10" /\ self.label_encoding = <<"None">>

\* C10: the labeled dataset is built without strong augmentation whatever
\* the caller passes, the unlabeled dataset gets the caller's
\* use_strong_transform and strong_transform; both carry the instance's
\* num_classes and transform and the caller's onehot.
C10_Augmentation ==
    SplitOk =>
        /\ ret.lb.use_strong_transform = FALSE
        /\ ret.lb.strong_transform = None
        /\ ret.ulb.use_strong_transform = ret.use_strong_transform
        /\ ret.ulb.strong_transform = ret.strong_transform
        /\ ret.lb.num_classes = self.num_classes
        /\ ret.ulb.num_classes = self.num_classes
        /\ ret.lb.transform = self.transform
        /\ ret.ulb.transform = self.transform
        /\ ret.lb.onehot = ret.onehot
        /\ ret.ulb.onehot = ret.onehot

C10_Witness ==
    /\ SplitOk /\ ret.use_strong_transform /\ ret.strong_transform = "RandAugment"
    /\ ret.onehot /\ ~self.train /\ Len(ret.lb.data) >= 1
    /\ Len(ret.ulb.data) > Len(ret.lb.data)

====
